---- MODULE Spec2Model ----
(***************************************************************************)
(* A model of instantfilm_effect.py: the command-line pipeline of main()   *)
(* and the three pixel functions it chains (create_instax_frame,           *)
(* add_vignette_effect, add_light_leak_effect).                            *)
(*                                                                         *)
(* Four specifications share the variables below:                          *)
(*   Spec          main(), one action per statement group of lines 287-351 *)
(*   SpecFrame     create_instax_frame on bounded sizes and scales         *)
(*   SpecVignette  add_vignette_effect on small images                     *)
(*   SpecLeak      add_light_leak_effect on small images                   *)
(* Floating-point values of the command line (strength, intensity) are     *)
(* kept in tenths: 3 stands for 0.3.                                       *)
(***************************************************************************)
EXTENDS Integers, Sequences, FiniteSets

VARIABLES
    pc,              \* main(): position in the function, or how it ended
    args,            \* main(): the parsed command line (argparse namespace)
    image,           \* main(): the local `image`
    instax_image,    \* main(): the local `instax_image`
    final_image,     \* main(): the local `final_image`
    leak_intensity,  \* main(): the local `leak_intensity`
    leak_color,      \* main(): the local `leak_color`
    calls,           \* main(): the stage calls made so far, in order
    fpc, frame_in, frame_out,   \* create_instax_frame: position, input, result
    vpc, vig_in, vig_out,       \* add_vignette_effect: position, input, result
    lpc, leak_in, leak_out      \* add_light_leak_effect: position, input, result

vars == <<pc, args, image, instax_image, final_image, leak_intensity,
          leak_color, calls, fpc, frame_in, frame_out, vpc, vig_in, vig_out,
          lpc, leak_in, leak_out>>

mainVars == <<pc, args, image, instax_image, final_image, leak_intensity,
              leak_color, calls>>
frameVars == <<fpc, frame_in, frame_out>>
vigVars == <<vpc, vig_in, vig_out>>
leakVars == <<lpc, leak_in, leak_out>>

(***************************************************************************)
(* Bounds of the model.                                                    *)
(***************************************************************************)
MaxFrameW == 48
MaxFrameH == 64
MaxScale == 11

(***************************************************************************)
(* create_instax_frame (lines 6-68).                                       *)
(***************************************************************************)
inner_width_mm == 46
inner_height_mm == 62
frame_width_mm == 54
frame_height_mm == 86

\* Lines 22-23: the size the crop is resized to.
inner_size_px(scale) == <<inner_width_mm * scale, inner_height_mm * scale>>

frame_size_px_inner(scale) == <<inner_width_mm * scale, inner_height_mm * scale>>

\* Lines 24-25 and 63: the size of the white canvas, which is the size of the
\* returned image (Image.paste never resizes the canvas it pastes into).
frame_size_px(scale) == <<frame_width_mm * scale, frame_height_mm * scale>>

crop_box_flipped(img_width, img_height) ==
    LET wide == img_width * inner_height_mm < img_height * inner_width_mm
        new_height == IF wide THEN img_height
                      ELSE (img_width * inner_height_mm) \div inner_width_mm
        new_width == IF wide THEN (img_height * inner_width_mm) \div inner_height_mm
                     ELSE img_width
        left == (img_width - new_width) \div 2
        top == (img_height - new_height) \div 2
    IN  [left |-> left, top |-> top,
         right |-> left + new_width, bottom |-> top + new_height]

\* Lines 34-50: the centred crop. target_ratio = 46/62 and img_ratio = W/H
\* are doubles; img_ratio > target_ratio is decided as 62*W > 46*H, and
\* int(H * target_ratio), int(W / target_ratio) as the floors of H*46/62 and
\* W*62/46 (the doubles give these values for every size up to 20000).
crop_box(img_width, img_height) ==
    LET wide == img_width * inner_height_mm > img_height * inner_width_mm
        new_height == IF wide THEN img_height
                      ELSE (img_width * inner_height_mm) \div inner_width_mm
        new_width == IF wide THEN (img_height * inner_width_mm) \div inner_height_mm
                     ELSE img_width
        left == (img_width - new_width) \div 2
        top == (img_height - new_height) \div 2
    IN  [left |-> left, top |-> top,
         right |-> left + new_width, bottom |-> top + new_height]

\* Lines 64-65: where the resized crop is pasted. paste_y is the literal 70.
paste_at(scale) ==
    LET frame_width_px == frame_width_mm * scale
        inner_width_px == inner_width_mm * scale
    IN  <<(frame_width_px - inner_width_px) \div 2, 70>>

\* The whole function: what it crops, what it resizes the crop to, where it
\* pastes it, and the size of what it returns.
create_instax_frame(img_width, img_height, scale) ==
    [crop |-> crop_box(img_width, img_height),
     inner |-> inner_size_px(scale),
     paste |-> paste_at(scale),
     size |-> frame_size_px(scale)]

NoFrame == [crop |-> [left |-> 0, top |-> 0, right |-> 0, bottom |-> 0],
            inner |-> <<0, 0>>, paste |-> <<0, 0>>, size |-> <<0, 0>>]

FrameInputs == [w : 1..MaxFrameW, h : 1..MaxFrameH, scale : 1..MaxScale]

BuildFrame ==
    /\ fpc = "ready"
    /\ frame_out' = create_instax_frame(frame_in.w, frame_in.h, frame_in.scale)
    /\ fpc' = "done"
    /\ UNCHANGED <<frame_in, mainVars, vigVars, leakVars>>

(***************************************************************************)
(* Raster images: a width, a height and an RGB triple per pixel (x, y).    *)
(***************************************************************************)
Pixels(w, h) == (0..(w - 1)) \X (0..(h - 1))
NoImage == [w |-> 0, h |-> 0, px |-> [p \in {} |-> <<0, 0, 0>>]]

\* The colours the test images are made of.
Palette == {<<255, 255, 255>>, <<0, 0, 0>>, <<200, 100, 50>>, <<75, 150, 225>>}

\* A test image: colour a where x + y is even, colour b elsewhere.
TestImage(w, h, a, b) ==
    [w |-> w, h |-> h,
     px |-> [p \in Pixels(w, h) |-> IF (p[1] + p[2]) % 2 = 0 THEN a ELSE b]]

(***************************************************************************)
(* add_vignette_effect (lines 180-208).                                    *)
(***************************************************************************)
MaxVigDim == 4

VigDistance2_pixel_centre(x, y, width, height) ==
    (2 * x - (width - 1)) * (2 * x - (width - 1))
        + (2 * y - (height - 1)) * (2 * y - (height - 1))

VigDistance2_from_origin(x, y, width, height) ==
    (2 * x) * (2 * x) + (2 * y) * (2 * y)

\* Lines 193 and 201-203: dx = x - width/2, dy = y - height/2 and the squared
\* distance dx^2 + dy^2, all times 4 to stay in the integers.
VigDistance2(x, y, width, height) ==
    (2 * x - width) * (2 * x - width) + (2 * y - height) * (2 * y - height)

\* Line 194: max_distance squared, times 4.
VigMaxDistance2(width, height) == width * width + height * height

\* Lines 204-205 and the astype(np.uint8) of line 207, for one channel:
\* int(orig * (1 - strength * distance / max_distance)). With strength = t/10
\* the value is orig - m for the least m with m >= orig * t * sqrt(d2/m2) / 10,
\* that is with (10 m)^2 * m2 >= orig^2 * t^2 * d2. The code multiplies in
\* float32: where the real product is an integer n the float32 product is n
\* or just below it, which truncates to n - 1; round_down says which. A
\* factor below 0 (distance beyond max_distance) gives a negative product,
\* here -1, which line 207 clips to 0.
VigChannel(orig, t, d2, m2, round_down) ==
    LET Enough(m) == (10 * m) * (10 * m) * m2 >= orig * orig * t * t * d2
        m == CHOOSE k \in 0..orig : Enough(k) /\ (k = 0 \/ ~Enough(k - 1))
        integral == (10 * m) * (10 * m) * m2 = orig * orig * t * t * d2
    IN  IF ~Enough(orig) THEN -1
        ELSE IF round_down /\ integral /\ t > 0 /\ d2 > 0 /\ orig - m >= 1
        THEN orig - m - 1
        ELSE orig - m

\* Line 207: np.clip(np_image, 0, 255).
Clip(v) == IF v < 0 THEN 0 ELSE IF v > 255 THEN 255 ELSE v

\* Lines 191-208: every pixel, every channel.
add_vignette_effect(img, t, round_down) ==
    [w |-> img.w, h |-> img.h,
     px |-> [p \in Pixels(img.w, img.h) |->
               [c \in 1..3 |->
                  Clip(VigChannel(img.px[p][c], t,
                                  VigDistance2(p[1], p[2], img.w, img.h),
                                  VigMaxDistance2(img.w, img.h),
                                  round_down))]]]

\* strength in [0,1], in tenths.
VigInputs ==
    {[img |-> TestImage(w, h, a, b), strength |-> t] :
        w \in 1..MaxVigDim, h \in 1..MaxVigDim, a \in Palette, b \in Palette,
        t \in 0..10}

ApplyVignette ==
    /\ vpc = "ready"
    /\ \E round_down \in BOOLEAN :
          vig_out' = add_vignette_effect(vig_in.img, vig_in.strength, round_down)
    /\ vpc' = "done"
    /\ UNCHANGED <<vig_in, mainVars, frameVars, leakVars>>

(***************************************************************************)
(* add_light_leak_effect (lines 130-177).                                  *)
(***************************************************************************)
MaxLeakW == 10
MaxLeakH == 3

\* Lines 153-162: int(width * 0.6), int(width * 0.4) and int(height * 0.5) are
\* the floors of 6w/10, 4w/10 and h/2 (the doubles give these values for every
\* size up to 20000). Any other position takes the else branch.
ellipse_box(width, height, leak_position) ==
    CASE leak_position = "upper_right" ->
            <<(width * 6) \div 10, 0, width, height \div 2>>
      [] leak_position = "upper_left" ->
            <<0, 0, (width * 4) \div 10, height \div 2>>
      [] leak_position = "bottom_right" ->
            <<(width * 6) \div 10, height \div 2, width, height>>
      [] leak_position = "bottom_left" ->
            <<0, height \div 2, (width * 4) \div 10, height>>
      [] OTHER ->
            <<(width * 6) \div 10, 0, width, height \div 2>>

\* ImageDraw.ellipse: the pixels of the ellipse inscribed in the box, taken as
\* those whose centre satisfies the ellipse inequality (Pillow's rasteriser may
\* differ from this on the outline).
InEllipse(x, y, box) ==
    LET a == box[3] - box[1]
        b == box[4] - box[2]
        u == 2 * x - box[1] - box[3]
        v == 2 * y - box[2] - box[4]
    IN  /\ box[1] <= x /\ x <= box[3] /\ box[2] <= y /\ y <= box[4]
        /\ u * u * b * b + v * v * a * a <= a * a * b * b

\* Lines 148-165: the black layer with the filled ellipse.
draw_ellipse(width, height, box, color) ==
    [w |-> width, h |-> height,
     px |-> [p \in Pixels(width, height) |->
               IF InEllipse(p[1], p[2], box) THEN color ELSE <<0, 0, 0>>]]

\* Line 168: int(width * 0.1).
blur_radius(width) == width \div 10

ClampTo(v, hi) == IF v < 0 THEN 0 ELSE IF v > hi THEN hi ELSE v

\* Line 169: ImageFilter.GaussianBlur. Radius 0 returns the layer as it is; a
\* larger radius is taken as the mean over the (2r+1)^2 window with the
\* edge pixels extended (Pillow approximates the Gaussian by box blurs).
GaussianBlur(layer, radius) ==
    IF radius = 0 THEN layer
    ELSE LET win == (-radius)..radius
             n == (2 * radius + 1) * (2 * radius + 1)
             At(x, y) == layer.px[<<ClampTo(x, layer.w - 1), ClampTo(y, layer.h - 1)>>]
             RECURSIVE RowSum(_, _, _, _)
             RowSum(p, c, dy, dx) ==
                 IF dx > radius THEN 0
                 ELSE At(p[1] + dx, p[2] + dy)[c] + RowSum(p, c, dy, dx + 1)
             RECURSIVE WinSum(_, _, _)
             WinSum(p, c, dy) ==
                 IF dy > radius THEN 0
                 ELSE RowSum(p, c, dy, -radius) + WinSum(p, c, dy + 1)
         IN  [w |-> layer.w, h |-> layer.h,
              px |-> [p \in Pixels(layer.w, layer.h) |->
                        [c \in 1..3 |-> WinSum(p, c, -radius) \div n]]]

\* Lines 148-169: the blurred leak layer.
leak_layer(width, height, color, leak_position) ==
    GaussianBlur(draw_ellipse(width, height,
                              ellipse_box(width, height, leak_position),
                              color),
                 blur_radius(width))

\* Line 173: ImageChops.screen, per channel 255 - (255 - a)(255 - b)/255.
ImageChops_screen(im1, im2) ==
    [w |-> im1.w, h |-> im1.h,
     px |-> [p \in Pixels(im1.w, im1.h) |->
               [c \in 1..3 |->
                  255 - ((255 - im1.px[p][c]) * (255 - im2.px[p][c])) \div 255]]]

\* One channel of Image.blend for 0 < alpha < 1, alpha = t/10: the float
\* a + alpha * (b - a) cut to an integer. Where the real value is an integer n
\* the float is n or just below it, which is cut to n - 1.
BlendChannel(a, b, t, round_down) ==
    LET n == (10 * a + t * (b - a)) \div 10
        integral == (t * (b - a)) % 10 = 0
    IN  IF round_down /\ integral /\ a # b /\ n >= 1 THEN n - 1 ELSE n

\* Line 175: Image.blend(im1, im2, alpha) returns a copy of im1 for alpha 0.0
\* and a copy of im2 for alpha 1.0, and interpolates in between.
Image_blend(im1, im2, t, round_down) ==
    IF t = 0 THEN im1
    ELSE IF t = 10 THEN im2
    ELSE [w |-> im1.w, h |-> im1.h,
          px |-> [p \in Pixels(im1.w, im1.h) |->
                    [c \in 1..3 |->
                       BlendChannel(im1.px[p][c], im2.px[p][c], t, round_down)]]]

add_light_leak_effect_swapped(img, color, t, leak_position, round_down) ==
    LET combined == ImageChops_screen(
                        img, leak_layer(img.w, img.h, color, leak_position))
    IN  Image_blend(combined, img, t, round_down)

\* Lines 142-177.
add_light_leak_effect(img, color, t, leak_position, round_down) ==
    LET combined == ImageChops_screen(
                        img, leak_layer(img.w, img.h, color, leak_position))
    IN  Image_blend(img, combined, t, round_down)

LeakPalette == {<<0, 0, 0>>, <<200, 100, 50>>, <<255, 255, 255>>}
LeakColors == {<<255, 180, 100>>, <<100, 180, 255>>, <<255, 255, 255>>}

\* The intensities main() can pass (0.5 by default, 0.3, 0.5 or 0.6 when
\* estimated) and the two ends of the range.
LeakIntensities == {0, 3, 5, 6, 10}

LeakInputs ==
    {[img |-> TestImage(w, h, a, b), color |-> col, intensity |-> t,
      position |-> pos] :
        w \in 1..MaxLeakW, h \in 1..MaxLeakH, a \in LeakPalette,
        b \in LeakPalette, col \in LeakColors, t \in LeakIntensities,
        pos \in {"upper_left", "upper_right", "bottom_left", "bottom_right",
                 "none"}}

ApplyLeak ==
    /\ lpc = "ready"
    /\ \E round_down \in BOOLEAN :
          leak_out' = add_light_leak_effect(leak_in.img, leak_in.color,
                                            leak_in.intensity, leak_in.position,
                                            round_down)
    /\ lpc' = "done"
    /\ UNCHANGED <<leak_in, mainVars, frameVars, vigVars>>

(***************************************************************************)
(* main (lines 263-351).                                                   *)
(*                                                                         *)
(* An image of the pipeline is the sequence of stages applied to the       *)
(* decoded input file: <<>> is the input itself, <<"Vignette", "Frame">>   *)
(* the framed vignetted input.                                             *)
(***************************************************************************)
Source == <<>>
Unset == <<"unset">>
Stages == <<"Vignette", "Frame", "Leak", "Border">>
StageRank(s) == CHOOSE i \in 1..Len(Stages) : Stages[i] = s

NoColor == [tag |-> "unset", rgb |-> <<0, 0, 0>>]

\* Lines 272-279.
const_leak_style(style) ==
    CASE style = "warm" -> [tag |-> "rgb", rgb |-> <<255, 180, 100>>]
      [] style = "cool" -> [tag |-> "rgb", rgb |-> <<100, 180, 255>>]
      [] style = "pink" -> [tag |-> "rgb", rgb |-> <<255, 150, 200>>]
      [] style = "burn" -> [tag |-> "rgb", rgb |-> <<255, 60, 60>>]
      [] style = "none" -> [tag |-> "none", rgb |-> <<0, 0, 0>>]
      [] style = "auto" -> [tag |-> "auto", rgb |-> <<0, 0, 0>>]

LeakStyles == {"warm", "cool", "pink", "burn", "none", "auto"}

\* Lines 231-237: the choices of --leak-position.
LeakPositions == {"upper_left", "upper_right", "bottom_left", "bottom_right", "none"}

\* Lines 238-243: --leak-intensity has a float default and no type=, so a value
\* given on the command line stays the string that was typed; "auto" is the
\* string the code tests for. val is the number in tenths (0 for auto).
LeakIntensityArgs ==
    {[kind |-> "float", val |-> 5], [kind |-> "auto", val |-> 0]}
    \cup [kind : {"str"}, val : {-1, 0, 5, 10, 11}]

\* Lines 244-250: --vinette-strength, type=float, in tenths.
VinetteStrengthArgs == {-1, 0, 3, 10, 11}

\* Lines 251-257: --border-size, type=int.
BorderSizeArgs == {-1, 0, 1, 2}

\* Lines 217-261.
parse_argument ==
    [vinette_strength : VinetteStrengthArgs,
     leak_intensity : LeakIntensityArgs,
     leak_style : LeakStyles,
     leak_position : LeakPositions,
     border_size : BorderSizeArgs]

\* Lines 89-100, on the average brightness of the image.
estimate_leak_intensity(avg_brightness) ==
    IF avg_brightness < 100 THEN 6
    ELSE IF avg_brightness < 180 THEN 5
    ELSE 3

Brightnesses == {0, 99, 100, 179, 180, 255}

\* Lines 120-128: white, or the average colour of the bright pixels.
EstimatedColors == {<<255, 255, 255>>, <<240, 230, 210>>}

\* One stage call: the image it was given and the image it returned.
StageCall(stage, input) ==
    [stage |-> stage, input |-> input, output |-> Append(input, stage)]

\* Lines 287-295: Image.open; either except branch ends in exit(1).
OpenImage ==
    /\ pc = "open"
    /\ \E opened \in BOOLEAN :
          IF opened
          THEN image' = Source /\ pc' = "check_vinette"
          ELSE image' = image /\ pc' = "exit_open"
    /\ UNCHANGED <<args, instax_image, final_image, leak_intensity,
                   leak_color, calls, frameVars, vigVars, leakVars>>

\* Lines 298-301.
CheckVinetteStrength ==
    /\ pc = "check_vinette"
    /\ pc' = IF args.vinette_strength > 10 \/ args.vinette_strength < 0
             THEN "exit_vinette" ELSE "vignette"
    /\ UNCHANGED <<args, image, instax_image, final_image, leak_intensity,
                   leak_color, calls, frameVars, vigVars, leakVars>>

VignetteStageAlways ==
    /\ pc = "vignette"
    /\ image' = StageCall("Vignette", image).output
    /\ calls' = Append(calls, StageCall("Vignette", image))
    /\ pc' = "leak_intensity"
    /\ UNCHANGED <<args, instax_image, final_image, leak_intensity,
                   leak_color, frameVars, vigVars, leakVars>>

\* Lines 304-305.
VignetteStage ==
    /\ pc = "vignette"
    /\ IF args.vinette_strength > 0
       THEN /\ image' = StageCall("Vignette", image).output
            /\ calls' = Append(calls, StageCall("Vignette", image))
       ELSE UNCHANGED <<image, calls>>
    /\ pc' = "leak_intensity"
    /\ UNCHANGED <<args, instax_image, final_image, leak_intensity,
                   leak_color, frameVars, vigVars, leakVars>>

\* Lines 309-311: "auto" is estimated from the (vignetted) image.
ResolveLeakIntensity ==
    /\ pc = "leak_intensity"
    /\ IF args.leak_intensity.kind = "auto"
       THEN \E avg \in Brightnesses :
               leak_intensity' =
                   [kind |-> "float", val |-> estimate_leak_intensity(avg)]
       ELSE leak_intensity' = args.leak_intensity
    /\ pc' = "check_intensity"
    /\ UNCHANGED <<args, image, instax_image, final_image, leak_color, calls,
                   frameVars, vigVars, leakVars>>

\* Lines 313-315: comparing a str with 1.0 raises TypeError, which nothing
\* catches; a float out of range prints the error and exits.
CheckLeakIntensity ==
    /\ pc = "check_intensity"
    /\ pc' = IF leak_intensity.kind = "str" THEN "crash_intensity"
             ELSE IF leak_intensity.val > 10 \/ leak_intensity.val < 0
                  THEN "exit_intensity"
                  ELSE "leak_color"
    /\ UNCHANGED <<args, image, instax_image, final_image, leak_intensity,
                   leak_color, calls, frameVars, vigVars, leakVars>>

\* Lines 318-324.
ResolveLeakColor ==
    /\ pc = "leak_color"
    /\ LET style == const_leak_style(args.leak_style)
       IN  IF style.tag = "auto"
           THEN \E c \in EstimatedColors :
                   leak_color' = [tag |-> "rgb", rgb |-> c]
           ELSE leak_color' = style
    /\ pc' = "frame"
    /\ UNCHANGED <<args, image, instax_image, final_image, leak_intensity,
                   calls, frameVars, vigVars, leakVars>>

\* Line 327.
FrameStage ==
    /\ pc = "frame"
    /\ instax_image' = StageCall("Frame", image).output
    /\ calls' = Append(calls, StageCall("Frame", image))
    /\ pc' = "leak"
    /\ UNCHANGED <<args, image, final_image, leak_intensity, leak_color,
                   frameVars, vigVars, leakVars>>

\* Lines 330-338.
LeakStage ==
    /\ pc = "leak"
    /\ IF leak_color.tag = "none" \/ args.leak_position = "none"
       THEN final_image' = instax_image /\ calls' = calls
       ELSE /\ final_image' = StageCall("Leak", instax_image).output
            /\ calls' = Append(calls, StageCall("Leak", instax_image))
    /\ pc' = "border"
    /\ UNCHANGED <<args, image, instax_image, leak_intensity, leak_color,
                   frameVars, vigVars, leakVars>>

\* Lines 341-342.
BorderStage ==
    /\ pc = "border"
    /\ IF args.border_size > 0
       THEN /\ final_image' = StageCall("Border", final_image).output
            /\ calls' = Append(calls, StageCall("Border", final_image))
       ELSE UNCHANGED <<final_image, calls>>
    /\ pc' = "save"
    /\ UNCHANGED <<args, image, instax_image, leak_intensity, leak_color,
                   frameVars, vigVars, leakVars>>

\* Lines 345-351.
SaveImage ==
    /\ pc = "save"
    /\ \E saved \in BOOLEAN : pc' = IF saved THEN "done" ELSE "exit_save"
    /\ UNCHANGED <<args, image, instax_image, final_image, leak_intensity,
                   leak_color, calls, frameVars, vigVars, leakVars>>

(***************************************************************************)
(* The specifications.                                                     *)
(***************************************************************************)
MainIdle ==
    /\ pc = "idle"
    /\ args = [vinette_strength |-> 0,
               leak_intensity |-> [kind |-> "float", val |-> 5],
               leak_style |-> "warm", leak_position |-> "upper_right",
               border_size |-> 0]
    /\ image = Unset /\ instax_image = Unset /\ final_image = Unset
    /\ leak_intensity = [kind |-> "float", val |-> 5]
    /\ leak_color = NoColor
    /\ calls = <<>>

FrameIdle ==
    /\ fpc = "idle"
    /\ frame_in = [w |-> 1, h |-> 1, scale |-> 1]
    /\ frame_out = NoFrame

VigIdle ==
    /\ vpc = "idle"
    /\ vig_in = [img |-> NoImage, strength |-> 0]
    /\ vig_out = NoImage
LeakIdle ==
    /\ lpc = "idle"
    /\ leak_in = [img |-> NoImage, color |-> <<0, 0, 0>>, intensity |-> 0,
                  position |-> "none"]
    /\ leak_out = NoImage

Init ==
    /\ pc = "open"
    /\ args \in parse_argument
    /\ image = Unset /\ instax_image = Unset /\ final_image = Unset
    /\ leak_intensity = [kind |-> "float", val |-> 5]
    /\ leak_color = NoColor
    /\ calls = <<>>
    /\ FrameIdle /\ VigIdle /\ LeakIdle

Next ==
    \/ OpenImage
    \/ CheckVinetteStrength
    \/ VignetteStage
    \/ ResolveLeakIntensity
    \/ CheckLeakIntensity
    \/ ResolveLeakColor
    \/ FrameStage
    \/ LeakStage
    \/ BorderStage
    \/ SaveImage

Spec == Init /\ [][Next]_vars

InitFrame ==
    /\ fpc = "ready"
    /\ frame_in \in FrameInputs
    /\ frame_out = NoFrame
    /\ MainIdle /\ VigIdle /\ LeakIdle

NextFrame == BuildFrame

SpecFrame == InitFrame /\ [][NextFrame]_vars

(***************************************************************************)
(* Claims about main().                                                    *)
(***************************************************************************)
StagesRun == [i \in 1..Len(calls) |-> calls[i].stage]
HasRun(s) == \E i \in 1..Len(calls) : calls[i].stage = s

\* The stages a run with these arguments and this resolved colour is to make.
StageWanted(s) ==
    CASE s = "Vignette" -> args.vinette_strength > 0
      [] s = "Frame" -> TRUE
      [] s = "Leak" -> leak_color.tag # "none" /\ args.leak_position # "none"
      [] s = "Border" -> args.border_size > 0

\* C1: the stages run in the order Vignette, Frame, Leak, Border, none twice
\* and none before an earlier one; each is given exactly what the stage before
\* it returned (the first one the decoded input); a stage runs only when its
\* condition holds, and a run that passed validation and reached the save has
\* run exactly the stages whose conditions hold, Frame among them, and saves
\* the last stage's output.
C1_StagesInFixedOrder ==
    /\ \A i, j \in 1..Len(calls) :
          i < j => StageRank(calls[i].stage) < StageRank(calls[j].stage)
    /\ \A i \in 1..Len(calls) :
          calls[i].input = IF i = 1 THEN Source ELSE calls[i - 1].output
    /\ HasRun("Vignette") => args.vinette_strength > 0
    /\ HasRun("Leak") => leak_color.tag = "rgb" /\ args.leak_position # "none"
    /\ HasRun("Border") => args.border_size > 0
    /\ pc \in {"leak_intensity", "check_intensity", "leak_color", "frame"}
          => (HasRun("Vignette") <=> args.vinette_strength > 0)
    /\ pc \in {"save", "done", "exit_save"} =>
          /\ HasRun("Frame")
          /\ StagesRun = SelectSeq(Stages, StageWanted)
          /\ final_image = calls[Len(calls)].output

C1_Witness ==
    /\ pc = "done"
    /\ StagesRun = Stages
    /\ final_image = <<"Vignette", "Frame", "Leak", "Border">>

RangeViolation ==
    \/ args.vinette_strength > 10 \/ args.vinette_strength < 0
    \/ /\ args.leak_intensity.kind # "auto"
       /\ args.leak_intensity.val > 10 \/ args.leak_intensity.val < 0

\* C2: a run whose vignette strength or leak intensity is outside [0,1] never
\* executes a stage: it is aborted before any pixel transform has run.
C2_RangeViolationRunsNoStage == RangeViolation => calls = <<>>

(***************************************************************************)
(* Claims about create_instax_frame.                                       *)
(***************************************************************************)
\* C3: for every scale s > 0 and every source of width and height >= 1 the
\* returned image has size exactly (54*s, 86*s).
C3_FrameSize ==
    fpc = "done" =>
        frame_out.size = <<54 * frame_in.scale, 86 * frame_in.scale>>

C3_Witness ==
    /\ fpc = "done"
    /\ frame_in = [w |-> 40, h |-> 7, scale |-> 3]
    /\ frame_out.size = <<162, 258>>

\* C4: the crop rectangle lies within the source, 0 <= left <= right <= W and
\* 0 <= top <= bottom <= H, is centred, left = floor((W - cropW)/2) and
\* top = floor((H - cropH)/2), and has cropW = floor(H*46/62), cropH = H when
\* W/H > 46/62 and cropW = W, cropH = floor(W*62/46) otherwise.
C4_CropRect ==
    fpc = "done" =>
        LET W == frame_in.w
            H == frame_in.h
            c == frame_out.crop
            cropW == IF W * 62 > H * 46 THEN (H * 46) \div 62 ELSE W
            cropH == IF W * 62 > H * 46 THEN H ELSE (W * 62) \div 46
        IN  /\ 0 <= c.left /\ c.left <= c.right /\ c.right <= W
            /\ 0 <= c.top /\ c.top <= c.bottom /\ c.bottom <= H
            /\ c.left = (W - cropW) \div 2
            /\ c.top = (H - cropH) \div 2
            /\ c.right = c.left + cropW
            /\ c.bottom = c.top + cropH

C4_Witness ==
    /\ fpc = "done"
    /\ frame_in.w = 40 /\ frame_in.h = 30
    /\ frame_out.crop = [left |-> 9, top |-> 0, right |-> 31, bottom |-> 30]

\* C5: the inset is pasted at x = floor((54*s - 46*s)/2) and at a vertical
\* offset proportional to the scale, y = 70*s/10.
C5_PasteOffsetScales ==
    fpc = "done" =>
        /\ frame_out.paste[1] = (54 * frame_in.scale - 46 * frame_in.scale) \div 2
        /\ frame_out.paste[2] = (70 * frame_in.scale) \div 10

\* C9: for every scale s >= 1 the pasted inset lies inside the canvas:
\* paste_x >= 0, paste_x + 46*s <= 54*s, paste_y >= 0, paste_y + 62*s <= 86*s.
C9_InsetInsideCanvas ==
    fpc = "done" =>
        /\ frame_out.paste[1] >= 0
        /\ frame_out.paste[1] + 46 * frame_in.scale <= 54 * frame_in.scale
        /\ frame_out.paste[2] >= 0
        /\ frame_out.paste[2] + 62 * frame_in.scale <= 86 * frame_in.scale

\* C10: for every source of width and height >= 1 the crop region is not
\* empty: right > left and bottom > top.
C10_CropNotEmpty ==
    fpc = "done" =>
        /\ frame_out.crop.right > frame_out.crop.left
        /\ frame_out.crop.bottom > frame_out.crop.top

InitVignette ==
    /\ vpc = "ready"
    /\ vig_in \in VigInputs
    /\ vig_out = NoImage
    /\ MainIdle /\ FrameIdle /\ LeakIdle

NextVignette == ApplyVignette

SpecVignette == InitVignette /\ [][NextVignette]_vars

(***************************************************************************)
(* Claims about add_vignette_effect.                                       *)
(***************************************************************************)
Corners(img) ==
    {<<0, 0>>, <<img.w - 1, 0>>, <<0, img.h - 1>>, <<img.w - 1, img.h - 1>>}

\* floor(original * (1 - strength)), strength = t/10.
FullyDarkened(orig, t) == (orig * (10 - t)) \div 10

Within1(a, b) == a - b <= 1 /\ b - a <= 1

\* C6, as claimed: after the vignette each of the four corner pixels has every
\* channel equal to floor(original * (1 - strength)) within +/-1.
C6_AllCornersFullyDarkened ==
    vpc = "done" =>
        \A p \in Corners(vig_in.img) : \A c \in 1..3 :
            Within1(vig_out.px[p][c],
                    FullyDarkened(vig_in.img.px[p][c], vig_in.strength))

\* C6, amended: the corner pixel (0,0) has every channel equal to
\* floor(original * (1 - strength)) within +/-1; the other three corners are
\* darkened by at most that much, each channel lying between
\* floor(original * (1 - strength)) - 1 and the original value.
C6_OriginCornerFullyDarkened ==
    vpc = "done" =>
        /\ \A c \in 1..3 :
              Within1(vig_out.px[<<0, 0>>][c],
                      FullyDarkened(vig_in.img.px[<<0, 0>>][c], vig_in.strength))
        /\ \A p \in Corners(vig_in.img) : \A c \in 1..3 :
              /\ vig_out.px[p][c] >=
                     FullyDarkened(vig_in.img.px[p][c], vig_in.strength) - 1
              /\ vig_out.px[p][c] <= vig_in.img.px[p][c]

C6_Witness ==
    /\ vpc = "done"
    /\ vig_in.img.w = 4 /\ vig_in.img.h = 3 /\ vig_in.strength = 3
    /\ vig_in.img.px[<<0, 0>>] = <<200, 100, 50>>
    /\ vig_out.px[<<0, 0>>] = <<140, 70, 35>>
    /\ vig_out.px[<<3, 2>>][1] > 140

Centre(img) == <<img.w \div 2, img.h \div 2>>

\* C7, as claimed: for every width and height, even or odd, the vignette
\* leaves the pixel at (floor(W/2), floor(H/2)) unchanged.
C7_CentreUnchanged ==
    vpc = "done" =>
        vig_out.px[Centre(vig_in.img)] = vig_in.img.px[Centre(vig_in.img)]

\* C7, amended: for every image whose width and height are both even the
\* vignette leaves the pixel at (W/2, H/2) unchanged.
C7_CentreUnchangedEvenSize ==
    (vpc = "done" /\ vig_in.img.w % 2 = 0 /\ vig_in.img.h % 2 = 0) =>
        vig_out.px[Centre(vig_in.img)] = vig_in.img.px[Centre(vig_in.img)]

C7_Witness ==
    /\ vpc = "done"
    /\ vig_in.img.w = 4 /\ vig_in.img.h = 2 /\ vig_in.strength = 10
    /\ vig_in.img.px[<<2, 1>>] = <<75, 150, 225>>
    /\ vig_out.px[<<2, 1>>] = <<75, 150, 225>>
    /\ vig_out.px[<<0, 0>>] = <<0, 0, 0>>

InitLeak ==
    /\ lpc = "ready"
    /\ leak_in \in LeakInputs
    /\ leak_out = NoImage
    /\ MainIdle /\ FrameIdle /\ VigIdle

NextLeak == ApplyLeak

SpecLeak == InitLeak /\ [][NextLeak]_vars

(***************************************************************************)
(* Claims about add_light_leak_effect.                                     *)
(***************************************************************************)
\* C8: with intensity 0 the result equals the input image pixel for pixel, and
\* with intensity 1 it is exactly the screen composite of the input image and
\* the blurred leak layer.
C8_LeakIntensityEnds ==
    lpc = "done" =>
        /\ leak_in.intensity = 0 => leak_out = leak_in.img
        /\ leak_in.intensity = 10 =>
              leak_out = ImageChops_screen(
                             leak_in.img,
                             leak_layer(leak_in.img.w, leak_in.img.h,
                                        leak_in.color, leak_in.position))

C8_Witness ==
    /\ lpc = "done"
    /\ leak_in.intensity = 10
    /\ leak_in.img.w = 10 /\ leak_in.img.h = 3
    /\ leak_in.position = "upper_right"
    /\ leak_in.color = <<255, 180, 100>>
    /\ leak_in.img.px[<<8, 0>>] = <<200, 100, 50>>
    /\ leak_out.px[<<8, 0>>] # leak_in.img.px[<<8, 0>>]
    /\ leak_out.px[<<0, 2>>] = leak_in.img.px[<<0, 2>>]

====
